---- MODULE Spec2Model ----
(***************************************************************************)
(* Game-Theory: the pure Nash equilibrium solver and the random replay of  *)
(* Game_Theory_Sim.py, and the iterated match and round-robin tournament   *)
(* of sim.py.                                                              *)
(*                                                                         *)
(* Four specifications, one per entry point:                               *)
(*   SpecNash        pure_nash_equilibria(players, strategies, payoffs)     *)
(*   SpecSim         simulate(players, strategies, payoffs, repetitions)    *)
(*   SpecMatch       play_rounds(strat1, strat2, rounds)                    *)
(*   SpecTournament  tournament(strategies, rounds_per_game)                *)
(* Python lists and tuples are sequences (1-based here, 0-based there),    *)
(* dicts are functions, a raised exception is a terminal value of the      *)
(* function's program counter.                                             *)
(***************************************************************************)
EXTENDS Integers, Sequences, FiniteSets, TLC

VARIABLES
    \* the game handed to pure_nash_equilibria / simulate
    players, strategies, payoffs,
    \* pure_nash_equilibria
    npc, idx, equilibria,
    \* simulate
    spc, repetitions, r, history, total_scores,
    \* play_rounds
    mpc, strat1, strat2, rounds, iter, history1, history2, score1, score2,
    move1, move2, payoff, seen1, seen2,
    \* tournament
    tpc, registry, rounds_per_game, totals, pair, self, matches

gameVars   == <<players, strategies, payoffs>>
solverVars == <<npc, idx, equilibria>>
simVars    == <<spc, repetitions, r, history, total_scores>>
matchVars  == <<mpc, strat1, strat2, rounds, iter, history1, history2,
                score1, score2, move1, move2, payoff, seen1, seen2>>
tournVars  == <<tpc, registry, rounds_per_game, totals, pair, self, matches>>
vars       == <<gameVars, solverVars, simVars, matchVars, tournVars>>

(***************************************************************************)
(* Bounds of the model.                                                    *)
(***************************************************************************)
\* payoffs entered for a custom two-player game range over 0..MaxPayoff
MaxPayoff == 1
\* simulate is called with 0..MaxRepetitions repetitions
MaxRepetitions == 3
\* play_rounds is called directly with 0..MaxRounds rounds
MaxRounds == 3
\* tournament is called with 0..MaxRoundsPerGame rounds per matchup
MaxRoundsPerGame == 2
\* tournament is called with at most MaxRegistry registered strategies
MaxRegistry == 3

(***************************************************************************)
(* Helpers for Python built-ins.                                           *)
(***************************************************************************)
Range(s) == {s[j] : j \in 1..Len(s)}

\* itertools.product(*lists): the tuples in lexicographic order, the last
\* list varying fastest.
RECURSIVE product(_)
product(lists) ==
    IF lists = <<>> THEN << <<>> >>
    ELSE LET rest == product(Tail(lists))
             hd   == Head(lists)
         IN  [x \in 1..(Len(hd) * Len(rest)) |->
                 <<hd[((x - 1) \div Len(rest)) + 1]>> \o rest[((x - 1) % Len(rest)) + 1]]

\* sum of component i of the payoff vectors of a sequence of vectors
RECURSIVE SumComponent(_, _)
SumComponent(vs, i) ==
    IF vs = <<>> THEN 0
    ELSE vs[Len(vs)][i] + SumComponent(SubSeq(vs, 1, Len(vs) - 1), i)

(***************************************************************************)
(* Game_Theory_Sim.py: the catalog of predefined games.                    *)
(***************************************************************************)
TwoPlayers == <<"Player 1", "Player 2">>

prisoners_dilemma ==
    [players    |-> TwoPlayers,
     strategies |-> [p \in Range(TwoPlayers) |-> <<"Cooperate", "Defect">>],
     payoffs    |-> (<<"Cooperate", "Cooperate">> :> <<3, 3>>)
                 @@ (<<"Cooperate", "Defect">>    :> <<0, 5>>)
                 @@ (<<"Defect", "Cooperate">>    :> <<5, 0>>)
                 @@ (<<"Defect", "Defect">>       :> <<1, 1>>)]

stag_hunt ==
    [players    |-> TwoPlayers,
     strategies |-> [p \in Range(TwoPlayers) |-> <<"Stag", "Hare">>],
     payoffs    |-> (<<"Stag", "Stag">> :> <<4, 4>>)
                 @@ (<<"Stag", "Hare">> :> <<0, 3>>)
                 @@ (<<"Hare", "Stag">> :> <<3, 0>>)
                 @@ (<<"Hare", "Hare">> :> <<3, 3>>)]

matching_pennies ==
    [players    |-> TwoPlayers,
     strategies |-> [p \in Range(TwoPlayers) |-> <<"Heads", "Tails">>],
     payoffs    |-> (<<"Heads", "Heads">> :> <<1, -1>>)
                 @@ (<<"Heads", "Tails">> :> <<-1, 1>>)
                 @@ (<<"Tails", "Heads">> :> <<-1, 1>>)
                 @@ (<<"Tails", "Tails">> :> <<1, -1>>)]

Catalog == {prisoners_dilemma, stag_hunt, matching_pennies}

(***************************************************************************)
(* Game_Theory_Sim.py: input_game.  The players are "Player 1".."Player n",*)
(* every player gets DEFAULT_STRATEGIES, and one payoff vector of exactly  *)
(* num_players numbers is read per profile of the product.                 *)
(***************************************************************************)
DEFAULT_STRATEGIES == <<"Cooperate", "Defect">>

PlayerNames == <<"Player 1", "Player 2", "Player 3">>

input_players(num_players) == SubSeq(PlayerNames, 1, num_players)

input_profiles(num_players) ==
    Range(product([i \in 1..num_players |-> DEFAULT_STRATEGIES]))

\* the game input_game returns when the user types vals[profile] at each prompt
input_game(num_players, vals) ==
    [players    |-> input_players(num_players),
     strategies |-> [p \in Range(input_players(num_players)) |-> DEFAULT_STRATEGIES],
     payoffs    |-> vals]

\* every two-player game that can be typed in with payoffs in 0..MaxPayoff
CustomGames2 ==
    {input_game(2, vals) : vals \in [input_profiles(2) -> [1..2 -> 0..MaxPayoff]]}

\* three-player games typed in: a player's payoff is own[its strategy] plus
\* share for every other player that cooperates
Cooperators(prof, i) ==
    Cardinality({j \in 1..Len(prof) : j # i /\ prof[j] = "Cooperate"})

CustomGames3 ==
    {input_game(3, [prof \in input_profiles(3) |->
                      [i \in 1..3 |-> (IF prof[i] = "Cooperate" THEN c ELSE d)
                                      + share * Cooperators(prof, i)]])
       : c \in 0..MaxPayoff, d \in 0..MaxPayoff, share \in 0..MaxPayoff}

\* a game built directly (not through input_game) whose players have
\* strategy lists of different lengths; level shifts player 2's payoffs
AsymmetricGames ==
    {[players    |-> TwoPlayers,
      strategies |-> ("Player 1" :> <<"Up", "Down">>)
                  @@ ("Player 2" :> <<"Left", "Middle", "Right">>),
      payoffs    |-> (<<"Up", "Left">>     :> <<2, level>>)
                  @@ (<<"Up", "Middle">>   :> <<1, 1>>)
                  @@ (<<"Up", "Right">>    :> <<0, 1>>)
                  @@ (<<"Down", "Left">>   :> <<2, 0>>)
                  @@ (<<"Down", "Middle">> :> <<0, level>>)
                  @@ (<<"Down", "Right">>  :> <<1, 0>>)]
       : level \in 0..MaxPayoff}

(***************************************************************************)
(* Tables that are not total over the product, or hold a vector whose      *)
(* length is not the player count.  pure_nash_equilibria and simulate take *)
(* players, strategies and payoffs as plain arguments, so a caller can     *)
(* hand them such a table.                                                 *)
(***************************************************************************)
Restrict(f, S) == [x \in S |-> f[x]]

DropProfile(g, prof) ==
    [g EXCEPT !.payoffs = Restrict(g.payoffs, (DOMAIN g.payoffs) \ {prof})]

ShortVector(g, prof) ==
    [g EXCEPT !.payoffs[prof] = SubSeq(g.payoffs[prof], 1, Len(g.payoffs[prof]) - 1)]

LongVector(g, prof) ==
    [g EXCEPT !.payoffs[prof] = Append(g.payoffs[prof], 0)]

MalformedGames ==
    UNION {UNION {{DropProfile(g, prof), ShortVector(g, prof), LongVector(g, prof)}
                     : prof \in DOMAIN g.payoffs} : g \in Catalog}

WellFormedGames == Catalog \cup CustomGames2 \cup CustomGames3 \cup AsymmetricGames

(***************************************************************************)
(* The game the running function was handed.                               *)
(***************************************************************************)
\* [strategies[p] for p in players]
StrategyLists == [i \in 1..Len(players) |-> strategies[players[i]]]

\* itertools.product(*[strategies[p] for p in players])
Profiles == product(StrategyLists)

\* the table is total over the product and every vector has one entry per player
TableComplete == Range(Profiles) \subseteq DOMAIN payoffs
ArityOk == \A prof \in DOMAIN payoffs : Len(payoffs[prof]) = Len(players)
ValidGame == TableComplete /\ ArityOk

GameIs(g) == players = g.players /\ strategies = g.strategies /\ payoffs = g.payoffs

NoGame == players = <<>> /\ strategies = <<>> /\ payoffs = <<>>

(***************************************************************************)
(* Game_Theory_Sim.py: pure_nash_equilibria.  One step per profile of the  *)
(* outer loop; the inner loops are walked in the code's order, so that a   *)
(* lookup the code never reaches (after a break) is never made.            *)
(***************************************************************************)
\* alt_prof = list(prof); alt_prof[i] = alt; alt_prof = tuple(alt_prof)
AltProfile(prof, i, alt) == [prof EXCEPT ![i] = alt]

\* faulty variants of the test of line 95: ties count as improvements, the
\* first player's payoff is read for every player, the comparison is inverted
ImprovesOrTies(alt_prof, i, best) == payoffs[alt_prof][i] >= best
ImprovesFirstPlayer(alt_prof, i, best) == payoffs[alt_prof][1] > best
Worsens(alt_prof, i, best) == payoffs[alt_prof][i] < best

\* payoffs[alt_prof][i] > best
Improves(alt_prof, i, best) == payoffs[alt_prof][i] > best

\* for alt in strategies[p]: ... from the a-th alternative on.
\* "stable": no alternative improves; "improves": is_eq = False; break
RECURSIVE CheckAlternatives(_, _, _)
CheckAlternatives(prof, i, a) ==
    LET alts == strategies[players[i]]
        best == payoffs[prof][i]
    IN  IF a > Len(alts) THEN "stable"
        ELSE IF alts[a] = prof[i] THEN CheckAlternatives(prof, i, a + 1)
        ELSE LET alt_prof == AltProfile(prof, i, alts[a])
             IN  IF alt_prof \notin DOMAIN payoffs THEN "KeyError"
                 ELSE IF i > Len(payoffs[alt_prof]) THEN "IndexError"
                 ELSE IF Improves(alt_prof, i, best) THEN "improves"
                 ELSE CheckAlternatives(prof, i, a + 1)

\* for i, p in enumerate(players): ... from player i on.
RECURSIVE CheckPlayers(_, _)
CheckPlayers(prof, i) ==
    IF i > Len(players) THEN "is_eq"
    ELSE IF i > Len(payoffs[prof]) THEN "IndexError"      \* best = current[i]
    ELSE LET res == CheckAlternatives(prof, i, 1)
         IN  IF res = "stable" THEN CheckPlayers(prof, i + 1)
             ELSE IF res = "improves" THEN "not_eq"
             ELSE res

\* the body of the outer loop for one profile
CheckProfile(prof) ==
    IF prof \notin DOMAIN payoffs THEN "KeyError"          \* current = payoffs[prof]
    ELSE CheckPlayers(prof, 1)

SolverIdle == npc = "idle" /\ idx = 0 /\ equilibria = <<>>

\* pure_nash_equilibria(players, strategies, payoffs) is entered
NashCall ==
    /\ npc = "call"
    /\ npc' = "loop"
    /\ idx' = 1
    /\ equilibria' = <<>>
    /\ UNCHANGED <<gameVars, simVars, matchVars, tournVars>>

\* one iteration of "for prof in itertools.product(...)"
NashStep ==
    /\ npc = "loop"
    /\ idx <= Len(Profiles)
    /\ LET prof == Profiles[idx]
           res  == CheckProfile(prof)
       IN  IF res \in {"KeyError", "IndexError"}
           THEN /\ npc' = res
                /\ UNCHANGED <<idx, equilibria>>
           ELSE /\ equilibria' = IF res = "is_eq" THEN Append(equilibria, prof)
                                 ELSE equilibria
                /\ idx' = idx + 1
                /\ npc' = npc
    /\ UNCHANGED <<gameVars, simVars, matchVars, tournVars>>

\* return equilibria
NashReturn ==
    /\ npc = "loop"
    /\ idx > Len(Profiles)
    /\ npc' = "returned"
    /\ UNCHANGED <<idx, equilibria>>
    /\ UNCHANGED <<gameVars, simVars, matchVars, tournVars>>

(***************************************************************************)
(* Game_Theory_Sim.py: simulate.  One step per round.                      *)
(***************************************************************************)
SimIdle ==
    /\ spc = "idle" /\ repetitions = 0 /\ r = 0
    /\ history = <<>> /\ total_scores = <<>>

\* simulate(players, strategies, payoffs, repetitions) is entered
SimCall ==
    /\ spc = "call"
    /\ spc' = "loop"
    /\ r' = 0
    /\ history' = <<>>
    /\ total_scores' = [p \in Range(players) |-> 0]
    /\ UNCHANGED <<repetitions, gameVars, solverVars, matchVars, tournVars>>

\* a faulty variant of lines 115-116: every player is given player 1's payoff
AddPayoffFirstOnly(scores, pay) ==
    [p \in DOMAIN scores |->
        IF \E i \in 1..Len(players) : players[i] = p /\ i <= Len(pay)
        THEN scores[p] + pay[1] ELSE scores[p]]

\* for i, p in enumerate(players): total_scores[p] += payoff[i]
\* (the players whose index the vector has; the next one raises IndexError)
AddPayoff(scores, pay) ==
    [p \in DOMAIN scores |->
        IF \E i \in 1..Len(players) : players[i] = p /\ i <= Len(pay)
        THEN scores[p] + pay[CHOOSE i \in 1..Len(players) : players[i] = p]
        ELSE scores[p]]

\* one iteration of "for r in range(repetitions)"; random.choice draws any
\* strategy of each player's list
SimRound ==
    /\ spc = "loop"
    /\ r < repetitions
    /\ \E profile \in Range(Profiles) :
          IF profile \notin DOMAIN payoffs
          THEN /\ spc' = "KeyError"                        \* payoff = payoffs[profile]
               /\ UNCHANGED <<r, history, total_scores>>
          ELSE LET pay == payoffs[profile]
               IN  /\ history' = Append(history, <<profile, pay>>)
                   /\ total_scores' = AddPayoff(total_scores, pay)
                   /\ IF Len(pay) < Len(players)
                      THEN spc' = "IndexError" /\ r' = r   \* payoff[i]
                      ELSE spc' = spc /\ r' = r + 1
    /\ UNCHANGED <<repetitions, gameVars, solverVars, matchVars, tournVars>>

\* return history, total_scores
SimReturn ==
    /\ spc = "loop"
    /\ r = repetitions
    /\ spc' = "returned"
    /\ UNCHANGED <<repetitions, r, history, total_scores>>
    /\ UNCHANGED <<gameVars, solverVars, matchVars, tournVars>>

(***************************************************************************)
(* sim.py: the payoff matrix and the strategy functions.                   *)
(***************************************************************************)
PD_PAYOFFS ==
       (<<"C", "C">> :> <<3, 3>>)
    @@ (<<"C", "D">> :> <<0, 5>>)
    @@ (<<"D", "C">> :> <<5, 0>>)
    @@ (<<"D", "D">> :> <<1, 1>>)

always_cooperate(my_hist, opp_hist) == "C"

always_defect(my_hist, opp_hist) == "D"

\* a faulty variant of tit_for_tat: it copies its own last move
tit_for_tat_own(my_hist, opp_hist) ==
    IF opp_hist = <<>> THEN "C" ELSE my_hist[Len(my_hist)]

tit_for_tat(my_hist, opp_hist) ==
    IF opp_hist = <<>> THEN "C" ELSE opp_hist[Len(opp_hist)]

\* random.choice(["C", "D"]): either move
random_strategy(my_hist, opp_hist) == {"C", "D"}

\* a strategy added by the user ("You can add new strategies here!"): any
\* callable; this one cooperates or returns something that is no move ("X")
custom_strategy(my_hist, opp_hist) == {"C", "X"}

\* the strategy functions, in the order main() registers them, then the user's
AllStrategies ==
    <<"always_cooperate", "always_defect", "tit_for_tat", "random_strategy",
      "custom_strategy">>

\* the moves a call strat(my_hist, opp_hist) can return
Call(strat, my_hist, opp_hist) ==
    CASE strat = "always_cooperate" -> {always_cooperate(my_hist, opp_hist)}
      [] strat = "always_defect"    -> {always_defect(my_hist, opp_hist)}
      [] strat = "tit_for_tat"      -> {tit_for_tat(my_hist, opp_hist)}
      [] strat = "random_strategy"  -> random_strategy(my_hist, opp_hist)
      [] strat = "custom_strategy"  -> custom_strategy(my_hist, opp_hist)

(***************************************************************************)
(* sim.py: play_rounds.  One step per statement of the loop body.          *)
(***************************************************************************)
MatchIdle ==
    /\ mpc = "idle" /\ strat1 = "" /\ strat2 = "" /\ rounds = 0 /\ iter = 0
    /\ history1 = <<>> /\ history2 = <<>> /\ score1 = 0 /\ score2 = 0
    /\ move1 = "" /\ move2 = "" /\ payoff = <<>> /\ seen1 = <<>> /\ seen2 = <<>>

\* play_rounds(s1, s2, rounds=n) has been entered: the state after lines 48-49
MatchEntered(s1, s2, n) ==
    /\ mpc = "loop" /\ strat1 = s1 /\ strat2 = s2 /\ rounds = n /\ iter = 0
    /\ history1 = <<>> /\ history2 = <<>> /\ score1 = 0 /\ score2 = 0
    /\ move1 = "" /\ move2 = "" /\ payoff = <<>> /\ seen1 = <<>> /\ seen2 = <<>>

\* the step that enters play_rounds(s1, s2, rounds=n)
EnterMatch(s1, s2, n) ==
    /\ mpc' = "loop" /\ strat1' = s1 /\ strat2' = s2 /\ rounds' = n /\ iter' = 0
    /\ history1' = <<>> /\ history2' = <<>> /\ score1' = 0 /\ score2' = 0
    /\ move1' = "" /\ move2' = "" /\ payoff' = <<>> /\ seen1' = <<>> /\ seen2' = <<>>

\* the step that drops the frame of a finished play_rounds
LeaveMatch ==
    /\ mpc' = "idle" /\ strat1' = "" /\ strat2' = "" /\ rounds' = 0 /\ iter' = 0
    /\ history1' = <<>> /\ history2' = <<>> /\ score1' = 0 /\ score2' = 0
    /\ move1' = "" /\ move2' = "" /\ payoff' = <<>> /\ seen1' = <<>> /\ seen2' = <<>>

\* a faulty variant of the loop bound: one round too many
MoreRoundsInclusive == iter <= rounds

\* for _ in range(rounds): another iteration is due
MoreRounds == iter < rounds

\* a faulty variant of line 53: side 2 is handed the histories in side 1's order
Args2Swapped == <<history1, history2>>

\* the arguments of strat1(history1, history2) and strat2(history2, history1)
Args1 == <<history1, history2>>
Args2 == <<history2, history1>>

\* move1 = strat1(history1, history2)
Consult1 ==
    /\ mpc = "loop"
    /\ MoreRounds
    /\ seen1' = Args1
    /\ move1' \in Call(strat1, Args1[1], Args1[2])
    /\ mpc' = "consult2"
    /\ UNCHANGED <<strat1, strat2, rounds, iter, history1, history2, score1,
                   score2, move2, payoff, seen2>>
    /\ UNCHANGED <<gameVars, solverVars, simVars, tournVars>>

\* move2 = strat2(history2, history1)
Consult2 ==
    /\ mpc = "consult2"
    /\ seen2' = Args2
    /\ move2' \in Call(strat2, Args2[1], Args2[2])
    /\ mpc' = "lookup"
    /\ UNCHANGED <<strat1, strat2, rounds, iter, history1, history2, score1,
                   score2, move1, payoff, seen1>>
    /\ UNCHANGED <<gameVars, solverVars, simVars, tournVars>>

\* a faulty variant of line 54: a missing pair is given a default payoff
LookupDefault(m1, m2) ==
    IF <<m1, m2>> \in DOMAIN PD_PAYOFFS
    THEN [raised |-> FALSE, value |-> PD_PAYOFFS[<<m1, m2>>]]
    ELSE [raised |-> FALSE, value |-> <<0, 0>>]

\* payoff_matrix[(move1, move2)]: the vector, or KeyError raised
Lookup(m1, m2) ==
    IF <<m1, m2>> \in DOMAIN PD_PAYOFFS
    THEN [raised |-> FALSE, value |-> PD_PAYOFFS[<<m1, m2>>]]
    ELSE [raised |-> TRUE, value |-> <<>>]

\* payoff = payoff_matrix[(move1, move2)]
LookupPayoff ==
    /\ mpc = "lookup"
    /\ IF Lookup(move1, move2).raised
       THEN mpc' = "KeyError" /\ payoff' = payoff
       ELSE mpc' = "score" /\ payoff' = Lookup(move1, move2).value
    /\ UNCHANGED <<strat1, strat2, rounds, iter, history1, history2, score1,
                   score2, move1, move2, seen1, seen2>>
    /\ UNCHANGED <<gameVars, solverVars, simVars, tournVars>>

\* score1 += payoff[0]; score2 += payoff[1]
Score ==
    /\ mpc = "score"
    /\ score1' = score1 + payoff[1]
    /\ score2' = score2 + payoff[2]
    /\ mpc' = "append"
    /\ UNCHANGED <<strat1, strat2, rounds, iter, history1, history2, move1,
                   move2, payoff, seen1, seen2>>
    /\ UNCHANGED <<gameVars, solverVars, simVars, tournVars>>

\* history1.append(move1); history2.append(move2); and back to the loop head
AppendMoves ==
    /\ mpc = "append"
    /\ history1' = Append(history1, move1)
    /\ history2' = Append(history2, move2)
    /\ iter' = iter + 1
    /\ mpc' = "loop"
    /\ UNCHANGED <<strat1, strat2, rounds, score1, score2, move1, move2,
                   payoff, seen1, seen2>>
    /\ UNCHANGED <<gameVars, solverVars, simVars, tournVars>>

\* return score1, score2
MatchReturn ==
    /\ mpc = "loop"
    /\ ~MoreRounds
    /\ mpc' = "returned"
    /\ UNCHANGED <<strat1, strat2, rounds, iter, history1, history2, score1,
                   score2, move1, move2, payoff, seen1, seen2>>
    /\ UNCHANGED <<gameVars, solverVars, simVars, tournVars>>

MatchNext ==
    \/ Consult1
    \/ Consult2
    \/ LookupPayoff
    \/ Score
    \/ AppendMoves
    \/ MatchReturn

(***************************************************************************)
(* sim.py: tournament.  The registry is the dict strategies (name ->       *)
(* function) in insertion order; a strategy is registered under its own    *)
(* function name.                                                          *)
(***************************************************************************)
\* itertools.combinations(range(n), 2), 1-based: the pairs <<i, j>>, i < j,
\* in lexicographic order
combinations2(n) ==
    LET pairs == {pr \in (1..n) \X (1..n) : pr[1] < pr[2]}
        Before(q, pr) == q[1] < pr[1] \/ (q[1] = pr[1] /\ q[2] < pr[2])
    IN  [k \in 1..Cardinality(pairs) |->
            CHOOSE pr \in pairs : Cardinality({q \in pairs : Before(q, pr)}) = k - 1]

\* the registries: the strategies of AllStrategies at the positions S, in order
Pick(S) ==
    [k \in 1..Cardinality(S) |->
        AllStrategies[CHOOSE x \in S : Cardinality({y \in S : y < x}) = k - 1]]

Registries ==
    {Pick(S) : S \in {T \in SUBSET (1..Len(AllStrategies)) : Cardinality(T) <= MaxRegistry}}

TournIdle ==
    /\ tpc = "idle" /\ registry = <<>> /\ rounds_per_game = 0 /\ totals = <<>>
    /\ pair = 0 /\ self = 0 /\ matches = <<>>

Pairs == combinations2(Len(registry))

\* totals = {name: 0 for name in strategies}
TournamentCall ==
    /\ tpc = "call"
    /\ totals' = [name \in Range(registry) |-> 0]
    /\ pair' = 1
    /\ self' = 1
    /\ tpc' = "pairs"
    /\ UNCHANGED <<registry, rounds_per_game, matches>>
    /\ UNCHANGED <<gameVars, solverVars, simVars, matchVars>>

\* s1, s2 = play_rounds(strat1, strat2, rounds=rounds_per_game) is entered
\* for the next pair of itertools.combinations(strategies.items(), 2)
StartPair ==
    /\ tpc = "pairs"
    /\ pair <= Len(Pairs)
    /\ EnterMatch(registry[Pairs[pair][1]], registry[Pairs[pair][2]], rounds_per_game)
    /\ tpc' = "in_pair"
    /\ UNCHANGED <<registry, rounds_per_game, totals, pair, self, matches>>
    /\ UNCHANGED <<gameVars, solverVars, simVars>>

\* totals[name1] += s1; totals[name2] += s2
FinishPair ==
    /\ tpc = "in_pair"
    /\ mpc = "returned"
    /\ LET name1 == registry[Pairs[pair][1]]
           name2 == registry[Pairs[pair][2]]
       IN  /\ totals' = [totals EXCEPT ![name1] = @ + score1, ![name2] = @ + score2]
           /\ matches' = Append(matches, [side1 |-> name1, side2 |-> name2,
                                          s1 |-> score1, s2 |-> score2])
    /\ pair' = pair + 1
    /\ tpc' = "pairs"
    /\ LeaveMatch
    /\ UNCHANGED <<registry, rounds_per_game, self>>
    /\ UNCHANGED <<gameVars, solverVars, simVars>>

\* the first loop is exhausted
PairsDone ==
    /\ tpc = "pairs"
    /\ pair > Len(Pairs)
    /\ tpc' = "selfs"
    /\ UNCHANGED <<registry, rounds_per_game, totals, pair, self, matches>>
    /\ UNCHANGED <<gameVars, solverVars, simVars, matchVars>>

\* s1, s2 = play_rounds(strat, strat, rounds=rounds_per_game) is entered
StartSelf ==
    /\ tpc = "selfs"
    /\ self <= Len(registry)
    /\ EnterMatch(registry[self], registry[self], rounds_per_game)
    /\ tpc' = "in_self"
    /\ UNCHANGED <<registry, rounds_per_game, totals, pair, self, matches>>
    /\ UNCHANGED <<gameVars, solverVars, simVars>>

\* a faulty variant of line 74: both sides of the self-play are credited
SelfContributionBoth(s1, s2) == s1 + s2

\* totals[name] += s1
SelfContribution(s1, s2) == s1

FinishSelf ==
    /\ tpc = "in_self"
    /\ mpc = "returned"
    /\ LET name == registry[self]
       IN  /\ totals' = [totals EXCEPT ![name] = @ + SelfContribution(score1, score2)]
           /\ matches' = Append(matches, [side1 |-> name, side2 |-> name,
                                          s1 |-> score1, s2 |-> score2])
    /\ self' = self + 1
    /\ tpc' = "selfs"
    /\ LeaveMatch
    /\ UNCHANGED <<registry, rounds_per_game, pair>>
    /\ UNCHANGED <<gameVars, solverVars, simVars>>

\* return totals
TournamentReturn ==
    /\ tpc = "selfs"
    /\ self > Len(registry)
    /\ tpc' = "returned"
    /\ UNCHANGED <<registry, rounds_per_game, totals, pair, self, matches>>
    /\ UNCHANGED <<gameVars, solverVars, simVars, matchVars>>

\* play_rounds raised: tournament has no handler, the error leaves it too
TournamentRaise ==
    /\ tpc \in {"in_pair", "in_self"}
    /\ mpc = "KeyError"
    /\ tpc' = "KeyError"
    /\ UNCHANGED <<registry, rounds_per_game, totals, pair, self, matches>>
    /\ UNCHANGED <<gameVars, solverVars, simVars, matchVars>>

(***************************************************************************)
(* The specifications.                                                     *)
(***************************************************************************)
InitNash ==
    /\ \E g \in WellFormedGames \cup MalformedGames : GameIs(g)
    /\ npc = "call" /\ idx = 0 /\ equilibria = <<>>
    /\ SimIdle /\ MatchIdle /\ TournIdle

NextNash == NashCall \/ NashStep \/ NashReturn

SpecNash == InitNash /\ [][NextNash]_vars

SimGames == Catalog \cup CustomGames3 \cup AsymmetricGames \cup MalformedGames

InitSim ==
    /\ \E g \in SimGames : GameIs(g)
    /\ repetitions \in 0..MaxRepetitions
    /\ spc = "call" /\ r = 0 /\ history = <<>> /\ total_scores = <<>>
    /\ SolverIdle /\ MatchIdle /\ TournIdle

NextSim == SimCall \/ SimRound \/ SimReturn

SpecSim == InitSim /\ [][NextSim]_vars

InitMatch ==
    /\ \E s1 \in Range(AllStrategies), s2 \in Range(AllStrategies), n \in 0..MaxRounds :
          MatchEntered(s1, s2, n)
    /\ NoGame /\ SolverIdle /\ SimIdle /\ TournIdle

SpecMatch == InitMatch /\ [][MatchNext]_vars

InitTournament ==
    /\ registry \in Registries
    /\ rounds_per_game \in 0..MaxRoundsPerGame
    /\ tpc = "call" /\ totals = <<>> /\ pair = 0 /\ self = 0 /\ matches = <<>>
    /\ NoGame /\ SolverIdle /\ SimIdle /\ MatchIdle

NextTournament ==
    \/ TournamentCall
    \/ StartPair
    \/ FinishPair
    \/ PairsDone
    \/ StartSelf
    \/ FinishSelf
    \/ TournamentReturn
    \/ TournamentRaise
    \/ MatchNext

SpecTournament == InitTournament /\ [][NextTournament]_vars

(***************************************************************************)
(* Properties of pure_nash_equilibria (under SpecNash).                    *)
(***************************************************************************)
Raised == {"KeyError", "IndexError"}

\* the definition of a pure Nash equilibrium: no unilateral deviation pays
\* strictly more to the deviating player
NoBetterDeviation(P) ==
    \A i \in 1..Len(players) :
        \A alt \in Range(strategies[players[i]]) \ {P[i]} :
            payoffs[[P EXCEPT ![i] = alt]][i] <= payoffs[P][i]

HasTiedDeviation(P) ==
    \E i \in 1..Len(players) :
        \E alt \in Range(strategies[players[i]]) \ {P[i]} :
            payoffs[[P EXCEPT ![i] = alt]][i] = payoffs[P][i]

\* C1: on a game whose table is total over the product, the solver returns
\* exactly the profiles of the product without a strictly improving
\* unilateral deviation; a deviation that pays the same disqualifies nothing.
C1_ExactlyTheEquilibria ==
    ValidGame =>
        /\ npc \notin Raised
        /\ npc = "returned" =>
              /\ Range(equilibria) = {P \in Range(Profiles) : NoBetterDeviation(P)}
              /\ Len(equilibria) = Cardinality(Range(equilibria))

\* the solver has returned an equilibrium that has a tied deviation, and has
\* left some profile out
C1_Witness ==
    /\ ValidGame
    /\ npc = "returned"
    /\ \E P \in Range(equilibria) : HasTiedDeviation(P)
    /\ Len(equilibria) < Len(Profiles)

\* C7: for the Prisoner's Dilemma of the catalog the solver returns the one
\* profile (Defect, Defect), whose payoff vector is (1, 1).
C7_PrisonersDilemma ==
    GameIs(prisoners_dilemma) =>
        /\ npc \notin Raised
        /\ npc = "returned" =>
              /\ equilibria = << <<"Defect", "Defect">> >>
              /\ payoffs[equilibria[1]] = <<1, 1>>

C7_Witness == GameIs(prisoners_dilemma) /\ npc = "returned" /\ Len(equilibria) = 1

\* C8: for the Stag Hunt of the catalog the solver returns exactly
\* (Stag, Stag) and (Hare, Hare), and neither mixed profile.
C8_StagHunt ==
    GameIs(stag_hunt) =>
        /\ npc \notin Raised
        /\ npc = "returned" =>
              /\ Range(equilibria) = {<<"Stag", "Stag">>, <<"Hare", "Hare">>}
              /\ Len(equilibria) = 2

C8_Witness == GameIs(stag_hunt) /\ npc = "returned" /\ Len(equilibria) = 2

\* C4: a game whose table misses a profile of the product, or holds a vector
\* whose length is not the player count, is rejected at construction, before
\* any solver run starts on it: no run of the solver on such a game ends in
\* an error raised at a payoff lookup in the middle of the computation.
C4_RejectedAtConstruction == ~ValidGame => npc \notin Raised

(***************************************************************************)
(* Properties of simulate (under SpecSim).                                 *)
(***************************************************************************)
RecordedPayoffs == [j \in 1..Len(history) |-> history[j][2]]

\* C10: on a game with a complete table, after every completed round the
\* history has one entry per round, each entry is a profile of the product
\* with the table's payoff for it, every player's total is the sum of its
\* component over the recorded payoffs, and on return there are exactly
\* `repetitions` entries.
C10_HistoryAndTotals ==
    ValidGame =>
        /\ spc \notin Raised
        /\ spc \in {"loop", "returned"} =>
              /\ Len(history) = r
              /\ r <= repetitions
              /\ \A j \in 1..Len(history) :
                    /\ history[j][1] \in Range(Profiles)
                    /\ history[j][2] = payoffs[history[j][1]]
              /\ DOMAIN total_scores = Range(players)
              /\ \A i \in 1..Len(players) :
                    total_scores[players[i]] = SumComponent(RecordedPayoffs, i)
        /\ spc = "returned" => Len(history) = repetitions

\* a run of at least two rounds has returned with different totals
C10_Witness ==
    /\ ValidGame
    /\ spc = "returned"
    /\ Len(history) >= 2
    /\ total_scores[players[1]] # total_scores[players[2]]

(***************************************************************************)
(* Properties of play_rounds (under SpecMatch).                            *)
(***************************************************************************)
\* the move pair and payoff the claim gives for the round after `done` rounds
TftVsDefectMoves(done) == IF done = 0 THEN <<"C", "D">> ELSE <<"D", "D">>
TftVsDefectPayoff(done) == IF done = 0 THEN <<0, 5>> ELSE <<1, 1>>

\* C2: tit_for_tat (side 1) against always_defect (side 2): the first round
\* is (C, D) with payoff (0, 5), every later round is (D, D) with payoff
\* (1, 1), and after R >= 1 rounds the scores returned are (R-1, 5+(R-1)).
C2_TitForTatVsDefect ==
    (strat1 = "tit_for_tat" /\ strat2 = "always_defect") =>
        /\ mpc # "KeyError"
        /\ \A j \in 1..Len(history1) :
              <<history1[j], history2[j]>> = TftVsDefectMoves(j - 1)
        /\ mpc \in {"score", "append"} =>
              /\ <<move1, move2>> = TftVsDefectMoves(iter)
              /\ payoff = TftVsDefectPayoff(iter)
        /\ (mpc = "returned" /\ rounds >= 1) =>
              /\ Len(history1) = rounds
              /\ score1 = rounds - 1
              /\ score2 = 5 + (rounds - 1)

C2_Witness ==
    /\ strat1 = "tit_for_tat" /\ strat2 = "always_defect"
    /\ mpc = "returned"
    /\ rounds >= 2

\* C6: always_defect against always_defect returns (R, R) for every round
\* count R >= 0, (0, 0) for R = 0.
C6_DefectVsDefect ==
    (strat1 = "always_defect" /\ strat2 = "always_defect") =>
        /\ mpc # "KeyError"
        /\ mpc = "returned" => (score1 = rounds /\ score2 = rounds)

C6_Witness ==
    /\ strat1 = "always_defect" /\ strat2 = "always_defect"
    /\ mpc = "returned"
    /\ rounds >= 2
    /\ score1 = rounds

\* the position of the loop body is past line 52 / past line 53
Consulted1 == mpc \in {"consult2", "lookup", "score", "append", "KeyError"}
Consulted2 == mpc \in {"lookup", "score", "append", "KeyError"}

C9_AtConsultation ==
    /\ Len(history1) = iter /\ Len(history2) = iter
    /\ iter <= rounds
    /\ (mpc = "loop" /\ iter = 0) => (history1 = <<>> /\ history2 = <<>>)
    /\ Consulted1 => (iter < rounds /\ seen1 = <<history1, history2>>)
    /\ Consulted2 => seen2 = <<history2, history1>>

C9_AppendOnly ==
    IF mpc = "append"
    THEN /\ history1' = Append(history1, move1)
         /\ history2' = Append(history2, move2)
         /\ iter' = iter + 1
    ELSE UNCHANGED <<history1, history2, iter>>

\* C9: when the strategies are consulted for round k both histories hold
\* exactly the k moves of the rounds before, in order; side 1 is handed
\* (history1, history2) and side 2 (history2, history1), both as they were
\* before the round; the histories start empty, grow by the round's two
\* moves when the round completes, and change in no other way.
C9_Histories == [](C9_AtConsultation) /\ [][C9_AppendOnly]_vars

\* side 2 is being answered in the third round, after different histories
C9_Witness ==
    /\ mpc = "lookup"
    /\ iter = 2
    /\ history1 # history2
    /\ strat2 = "tit_for_tat"
    /\ seen2 = <<history2, history1>>

(***************************************************************************)
(* Properties of tournament (under SpecTournament).                        *)
(***************************************************************************)
RECURSIVE ScoreOf(_, _, _)
\* the sum of side `side` payoffs of the rounds the two histories record
ScoreOf(h1, h2, side) ==
    IF h1 = <<>> THEN 0
    ELSE PD_PAYOFFS[<<h1[Len(h1)], h2[Len(h2)]>>][side]
         + ScoreOf(SubSeq(h1, 1, Len(h1) - 1), SubSeq(h2, 1, Len(h2) - 1), side)

C5_AbortedRound ==
    /\ mpc \in {"score", "append"} => <<move1, move2>> \in DOMAIN PD_PAYOFFS
    /\ mpc = "KeyError" =>
          /\ <<move1, move2>> \notin DOMAIN PD_PAYOFFS
          /\ iter < rounds
          /\ Len(history1) = iter /\ Len(history2) = iter
          /\ score1 = ScoreOf(history1, history2, 1)
          /\ score2 = ScoreOf(history1, history2, 2)
    /\ tpc = "KeyError" => mpc = "KeyError"

C5_ErrorPropagates ==
    /\ (mpc = "lookup" /\ <<move1, move2>> \notin DOMAIN PD_PAYOFFS) =>
          /\ mpc' = "KeyError"
          /\ UNCHANGED <<history1, history2, score1, score2, iter, totals>>
    /\ mpc = "KeyError" =>
          /\ UNCHANGED matchVars
          /\ UNCHANGED <<totals, matches, pair, self>>
          /\ tpc' = "KeyError"

\* C5: a round whose move pair is no key of the payoff table ends the match
\* with an error: no payoff is added for it, no history is extended, no
\* later round is played and no scores are returned; the error leaves
\* tournament as well, which returns no totals.
C5_InvalidMoveAborts == [](C5_AbortedRound) /\ [][C5_ErrorPropagates]_vars

\* the second round of a match raised, after a first round that scored, and
\* tournament has raised with it
C5_Witness ==
    /\ mpc = "KeyError"
    /\ tpc = "KeyError"
    /\ iter = 1
    /\ score1 + score2 > 0

RECURSIVE Credited(_, _)
\* what the matches of a log credit to strategy s: its own side's score of
\* every match it played, side 1's score of its self-play
Credited(log, s) ==
    IF log = <<>> THEN 0
    ELSE LET m == log[Len(log)]
         IN  (IF m.side1 = s THEN m.s1 ELSE IF m.side2 = s THEN m.s2 ELSE 0)
             + Credited(SubSeq(log, 1, Len(log) - 1), s)

MatchesBetween(a, b) ==
    {k \in 1..Len(matches) : {matches[k].side1, matches[k].side2} = {a, b}}

\* C3: when tournament returns, every unordered pair of distinct strategies
\* has played exactly one match, every strategy exactly one self-play, and
\* each total is the strategy's score over its matches against the others
\* plus side 1's score (only) of its self-play.
C3_TotalsCountEachMatchOnce ==
    tpc = "returned" =>
        /\ DOMAIN totals = Range(registry)
        /\ \A a \in Range(registry), b \in Range(registry) :
              Cardinality(MatchesBetween(a, b)) = 1
        /\ Len(matches) = (Len(registry) * (Len(registry) - 1)) \div 2 + Len(registry)
        /\ \A s \in Range(registry) : totals[s] = Credited(matches, s)

\* a tournament of three strategies has returned, one of whose self-plays
\* scored differently for its two sides
C3_Witness ==
    /\ tpc = "returned"
    /\ Len(registry) = 3
    /\ rounds_per_game = 2
    /\ \E k \in 1..Len(matches) :
          matches[k].side1 = matches[k].side2 /\ matches[k].s1 # matches[k].s2

====
